---- MODULE Spec2Model ----
(***************************************************************************)
(* A model of container_map (src/main.py): a key-value mapping whose       *)
(* values live behind paused docker containers.  The registry is a Python  *)
(* dict (insertion ordered), every container is an object of the docker    *)
(* daemon with a run state, and the single volume file holds one pickle.   *)
(* The callers are synchronous: every handler runs to completion, so each  *)
(* handler is one action; the calls into the docker daemon and into pickle *)
(* may raise, which the actions take as an input.                          *)
(*                                                                         *)
(* Spec has the handlers as actions, SpecIter adds the dict iterator,      *)
(* SpecNew starts before any registry is constructed, SpecVolume follows   *)
(* the writes to the volume.  SpecStep and SpecConc have the same handlers *)
(* one step at a time, for the states inside a handler: SpecStep with one  *)
(* caller, SpecConc with two callers whose steps interleave.               *)
(***************************************************************************)
EXTENDS Integers, Sequences, FiniteSets, TLC

\* ------------------------------------------------------------------ bounds
MaxSandboxes == 2      \* containers the daemon hands out in one run

Keys == {"a", "b"}
Values == {0, 1}       \* the values stored: small integers
Handles == 1..MaxSandboxes

\* ------------------------------------------------------ Python-level values
None == 0              \* dict.get's default: no container
NoKey == "-"
NoExc == "ok"          \* no exception pending
NoRet == -1            \* a handler that returns None

\* ------------------------------------------------------------ pickle
\* pickle.dump(c_value, fptr): protocol header, the integer as BININT1, STOP.
Pickle_dump(v) == <<128, 4, 75, v, 46>>

\* A load that takes the opcode for its argument.
Pickle_load_opcode(bytes) ==
    IF bytes = <<>> THEN [exc |-> "EOFError", value |-> -1]
    ELSE IF Len(bytes) >= 5 /\ bytes[1] = 128 /\ bytes[2] <= 5
            /\ bytes[3] = 75 /\ bytes[5] = 46
         THEN [exc |-> "ok", value |-> bytes[3]]
         ELSE [exc |-> "UnpicklingError", value |-> -1]

\* pickle.load(fptr): runs the opcodes; a file that ends early or does not
\* start with a protocol header raises.
Pickle_load(bytes) ==
    IF bytes = <<>> THEN [exc |-> "EOFError", value |-> NoRet]
    ELSE IF Len(bytes) >= 5 /\ bytes[1] = 128 /\ bytes[2] <= 5
            /\ bytes[3] = 75 /\ bytes[5] = 46
         THEN [exc |-> NoExc, value |-> bytes[4]]
         ELSE [exc |-> "UnpicklingError", value |-> NoRet]

\* ------------------------------------------------------------ the dict
\* _registry is a dict: an array of entries in insertion order in which a
\* deleted entry leaves a dummy slot behind.
DUMMY == [key |-> NoKey, handle |-> None]

DictHas(reg, k) == \E i \in 1..Len(reg) : reg[i].key = k

DictIndex(reg, k) == CHOOSE i \in 1..Len(reg) : reg[i].key = k

DictKeys(reg) == SelectSeq(reg, LAMBDA e : e.key # NoKey)

DictUsed(reg) == Len(DictKeys(reg))

\* A delete that empties the dict.
DictDel_clear(reg, k) == [i \in 1..Len(reg) |-> DUMMY]

\* del d[k]
DictDel(reg, k) == [reg EXCEPT ![DictIndex(reg, k)] = DUMMY]

\* d[k] = h; an insertion may resize the table, which drops the dummy slots
DictSet(reg, k, h, compact) ==
    IF DictHas(reg, k)
    THEN [reg EXCEPT ![DictIndex(reg, k)].handle = h]
    ELSE Append(IF compact THEN DictKeys(reg) ELSE reg,
                [key |-> k, handle |-> h])

\* ------------------------------------------------------------ the registry
\* _ContainerRegistry.get
registry_get(reg, k) ==
    IF DictHas(reg, k) THEN reg[DictIndex(reg, k)].handle ELSE None

\* A daemon whose pause leaves the container running.
Effect_nopause(meth) == IF meth = "remove" THEN "removed" ELSE "running"

\* A call of a container method: it is logged, and either raises (when the
\* daemon fails it, or the container is removed already) and changes
\* nothing, or takes effect.
Effect(meth) ==
    CASE meth = "pause" -> "paused"
      [] meth = "unpause" -> "running"
      [] meth = "remove" -> "removed"

Call(st, step, meth, k, h, fail) ==
    LET st1 == [st EXCEPT !.calls = Append(@, <<meth, h>>)]
    IN  IF <<step, k>> \in fail \/ st.sandbox[h] = "removed"
        THEN [st1 EXCEPT !.exc = "APIError",
                         !.failed = @ \cup {<<step, k>>}]
        ELSE [st1 EXCEPT !.sandbox[h] = Effect(meth)]

\* A remove that leaves the entry in the dict.
registry_remove_keep(st, k, fail) ==
    IF ~DictHas(st.registry, k)
    THEN [st EXCEPT !.exc = "KeyError"]
    ELSE LET h == registry_get(st.registry, k)
             s1 == Call(st, "rm_unpause", "unpause", k, h, fail)
             s2 == Call([s1 EXCEPT !.exc = NoExc],
                        "rm_remove", "remove", k, h, fail)
         IN  IF s2.exc # NoExc
             THEN s2
             ELSE [s2 EXCEPT !.exc = s1.exc]

\* A remove without the finally: an unpause that raises ends it.
registry_remove_nofinally(st, k, fail) ==
    IF ~DictHas(st.registry, k)
    THEN [st EXCEPT !.exc = "KeyError"]
    ELSE LET h == registry_get(st.registry, k)
             s1 == Call(st, "rm_unpause", "unpause", k, h, fail)
             s2 == Call(s1, "rm_remove", "remove", k, h, fail)
         IN  IF s1.exc # NoExc
             THEN s1
             ELSE IF s2.exc # NoExc
                  THEN s2
                  ELSE [s2 EXCEPT !.registry = DictDel(@, k)]

\* _ContainerRegistry.remove: try: unpause  finally: remove(force), del
registry_remove(st, k, fail) ==
    IF ~DictHas(st.registry, k)
    THEN [st EXCEPT !.exc = "KeyError"]
    ELSE LET h == registry_get(st.registry, k)
             s1 == Call(st, "rm_unpause", "unpause", k, h, fail)
             s2 == Call([s1 EXCEPT !.exc = NoExc],
                        "rm_remove", "remove", k, h, fail)
         IN  IF s2.exc # NoExc
             THEN s2
             ELSE [s2 EXCEPT !.registry = DictDel(@, k), !.exc = s1.exc]

\* _ContainerRegistry.add
registry_add(st, k, h, compact) ==
    [st EXCEPT !.registry = DictSet(@, k, h, compact)]

\* _CallbackCtxManager.__exit__ returns what container.pause() returns: None
ExitSwallows == FALSE

\* _ContainerRegistry.block_container_for_ctx and the __enter__ of the guard
\* it returns: the container of the key is looked up and unpaused.
ctx_enter(st, k, fail) ==
    LET h == registry_get(st.registry, k)
    IN  IF h = None
        THEN [st EXCEPT !.exc = "ContainerRegistryError"]
        ELSE Call(st, "guard_unpause", "unpause", k, h, fail)

\* An __exit__ that pauses only when the body returned normally.
ctx_exit_unsafe(st, k, h, fail) ==
    IF st.exc # NoExc
    THEN st
    ELSE Call(st, "guard_pause", "pause", k, h, fail)

\* The __exit__ of the guard on container h, st being the state the body
\* of the with block left: the container is paused, also when the body
\* raised, and the exception of the body goes on.
ctx_exit(st, k, h, fail) ==
    LET s3 == Call([st EXCEPT !.exc = NoExc],
                   "guard_pause", "pause", k, h, fail)
    IN  IF s3.exc # NoExc
        THEN s3
        ELSE IF ExitSwallows THEN s3 ELSE [s3 EXCEPT !.exc = st.exc]

\* ------------------------------------------------------------ the controller
\* An add that registers the container as it is started, not paused.
add_container_unpaused(st, k, fail, compact) ==
    IF <<"run", k>> \in fail
    THEN [st EXCEPT !.exc = "APIError",
                    !.failed = @ \cup {<<"run", k>>},
                    !.calls = Append(@, <<"run", None>>)]
    ELSE LET h == st.next
             s1 == [st EXCEPT !.next = h + 1,
                              !.sandbox[h] = "running",
                              !.calls = Append(@, <<"run", h>>)]
         IN  registry_add(s1, k, h, compact)

\* An add that registers the container before it pauses it.
add_container_register_first(st, k, fail, compact) ==
    IF <<"run", k>> \in fail
    THEN [st EXCEPT !.exc = "APIError",
                    !.failed = @ \cup {<<"run", k>>},
                    !.calls = Append(@, <<"run", None>>)]
    ELSE LET h == st.next
             s1 == [st EXCEPT !.next = h + 1,
                              !.sandbox[h] = "running",
                              !.calls = Append(@, <<"run", h>>)]
         IN  Call(registry_add(s1, k, h, compact),
                  "new_pause", "pause", k, h, fail)

\* _ContainerController._add_container
add_container(st, k, fail, compact) ==
    IF <<"run", k>> \in fail
    THEN [st EXCEPT !.exc = "APIError",
                    !.failed = @ \cup {<<"run", k>>},
                    !.calls = Append(@, <<"run", None>>)]
    ELSE LET h == st.next
             s1 == [st EXCEPT !.next = h + 1,
                              !.sandbox[h] = "running",
                              !.calls = Append(@, <<"run", h>>)]
             s2 == Call(s1, "new_pause", "pause", k, h, fail)
         IN  IF s2.exc # NoExc
             THEN s2
             ELSE registry_add(s2, k, h, compact)

\* What a dump that raises can leave in the file it was writing: nothing
\* (the file was truncated by open), or a pickle that is cut short.
PartialLens(v) == {0, Len(Pickle_dump(v)) - 1}

\* A write that leaves a file that has contents as it is.
WriteVolume_keep(st, k, v, fail, pfx) ==
    IF st.volume # <<>>
    THEN st
    ELSE [st EXCEPT !.volume = Pickle_dump(v)]

\* open(self._volume_path, "wb") truncates; pickle.dump writes the value or
\* raises having written only the first pfx bytes.
WriteVolume(st, k, v, fail, pfx) ==
    IF <<"dump", k>> \in fail
    THEN [st EXCEPT !.volume = SubSeq(Pickle_dump(v), 1, pfx),
                    !.exc = "PicklingError",
                    !.failed = @ \cup {<<"dump", k>>}]
    ELSE [st EXCEPT !.volume = Pickle_dump(v)]

\* open(self._volume_path, "rb"); return pickle.load(fptr)
ReadVolume(st) ==
    LET r == Pickle_load(st.volume)
    IN  IF r.exc = NoExc
        THEN [st EXCEPT !.ret = r.value]
        ELSE [st EXCEPT !.exc = r.exc]

\* A write that keeps the container of a key that is registered.
set_container_value_inplace(st, k, v, fail, pfx, compact) ==
    LET s2 == IF registry_get(st.registry, k) # None
              THEN st
              ELSE add_container(st, k, fail, compact)
    IN  IF s2.exc # NoExc
        THEN s2
        ELSE LET s3 == ctx_enter(s2, k, fail)
             IN  IF s3.exc # NoExc
                 THEN s3
                 ELSE ctx_exit(WriteVolume(s3, k, v, fail, pfx), k,
                               registry_get(s2.registry, k), fail)

\* _ContainerController._set_container_value
set_container_value(st, k, v, fail, pfx, compact) ==
    LET s1 == IF registry_get(st.registry, k) # None
              THEN registry_remove(st, k, fail)
              ELSE st
    IN  IF s1.exc # NoExc
        THEN s1
        ELSE LET s2 == add_container(s1, k, fail, compact)
             IN  IF s2.exc # NoExc
                 THEN s2
                 ELSE LET s3 == ctx_enter(s2, k, fail)
                      IN  IF s3.exc # NoExc
                          THEN s3
                          ELSE ctx_exit(WriteVolume(s3, k, v, fail, pfx), k,
                                        registry_get(s2.registry, k), fail)

\* A read that goes to the file when the key has no container.
get_container_value_unguarded(st, k, fail) ==
    IF registry_get(st.registry, k) = None
    THEN ReadVolume(st)
    ELSE LET s1 == ctx_enter(st, k, fail)
         IN  IF s1.exc # NoExc
             THEN s1
             ELSE ctx_exit(ReadVolume(s1), k,
                           registry_get(st.registry, k), fail)

\* _ContainerController._get_container_value
get_container_value(st, k, fail) ==
    LET s1 == ctx_enter(st, k, fail)
    IN  IF s1.exc # NoExc
        THEN s1
        ELSE ctx_exit(ReadVolume(s1), k, registry_get(st.registry, k), fail)

\* _ContainerController._remove_container
remove_container(st, k, fail) == registry_remove(st, k, fail)

\* _ContainerRegistry.__exit__: remove every key of a snapshot of the keys;
\* the first removal that raises ends the loop.
RECURSIVE ExitLoop(_, _, _)
ExitLoop(st, keys, fail) ==
    IF keys = <<>>
    THEN st
    ELSE LET s1 == registry_remove(st, Head(keys).key, fail)
         IN  IF s1.exc # NoExc
             THEN s1
             ELSE ExitLoop(s1, Tail(keys), fail)

registry_exit(st, fail) == ExitLoop(st, DictKeys(st.registry), fail)

\* ------------------------------------------------------------ state
VARIABLES
    registry,   \* _ContainerRegistry._registry: the dict's entries
    sandbox,    \* run state of every container of the daemon
    next,       \* the container the next containers.run returns
    volume,     \* the bytes of the volume file
    last,       \* the handler that ran last, and how it ended
    prev,       \* the write or delete that came right before it, if any
    scope,      \* whether the caller is inside `with Map() as map_:`
    faulty,     \* whether the docker daemon of this run can fail a call
    instance,   \* the class attribute _instance of the registry and of Map
    objects,    \* the class of every registry object made so far
    recent,     \* the value of the latest write that returned normally
    proc,       \* where each caller is in the handler it runs, and its locals
    stuck,      \* the containers whose re-pause or force-remove raised
    iter        \* the dict iterator handed out by Map.__iter__

vars ==
    <<registry, sandbox, next, volume, last, prev, scope, faulty, instance,
      objects, recent, proc, stuck, iter>>

\* cls._instance as Python looks it up: Map, a subclass of the registry,
\* has the attribute of the registry class until it is given its own.
ClassInstance(inst, cls) ==
    IF cls = "Map" /\ inst.Map # None THEN inst.Map ELSE inst.Registry

\* isinstance(o, cls)
IsInstance(objs, o, cls) ==
    /\ o # None
    /\ objs[o] = cls \/ (cls = "Registry" /\ objs[o] = "Map")

\* _ContainerRegistry.__new__(cls): a new object is made, and kept in
\* cls._instance, unless cls._instance is an instance of cls already.
registry_new(inst, objs, cls) ==
    IF ~IsInstance(objs, ClassInstance(inst, cls), cls)
    THEN [instance |-> [inst EXCEPT ![cls] = Len(objs) + 1],
          objects |-> Append(objs, cls),
          ret |-> Len(objs) + 1]
    ELSE [instance |-> inst, objects |-> objs,
          ret |-> ClassInstance(inst, cls)]

\* Map(): __new__ of Map, then Map.__init__, whose controller constructs a
\* registry of its own.
map_new(inst, objs) ==
    LET m == registry_new(inst, objs, "Map")
        r == registry_new(m.instance, m.objects, "Registry")
    IN  [instance |-> r.instance, objects |-> r.objects, ret |-> m.ret]

NoInstances == [Map |-> None, Registry |-> None]

\* The program's state as the handlers see it, with an empty call log.
St ==
    [registry |-> registry, sandbox |-> sandbox, next |-> next,
     volume |-> volume, calls |-> <<>>, failed |-> {},
     exc |-> NoExc, ret |-> NoRet]

\* What is remembered of a handler once the next one has run: a write or
\* a delete that returned normally, and whether the write replaced an entry.
\* recent where the writes are not followed
NotKept == -2

NoOp == [op |-> "other", key |-> NoKey, val |-> NoRet, over |-> FALSE]

Summary(l) ==
    IF l.op \in {"set", "del"} /\ l.exc = NoExc
    THEN [op |-> l.op, key |-> l.key, val |-> l.val, over |-> l.old # None]
    ELSE NoOp

\* The handler op(k, v) ran and left the state s.
Commit(s, op, k, v) ==
    /\ registry' = s.registry
    /\ sandbox' = s.sandbox
    /\ next' = s.next
    /\ volume' = s.volume
    /\ last' = [op |-> op, key |-> k, val |-> v, exc |-> s.exc,
                ret |-> s.ret, calls |-> s.calls, failed |-> s.failed,
                old |-> registry_get(registry, k),
                handle |-> registry_get(s.registry, k)]
    /\ prev' = Summary(last)
    /\ faulty' = faulty
    /\ recent' = IF recent # NotKept /\ op = "set" /\ s.exc = NoExc
                 THEN v ELSE recent
    /\ UNCHANGED <<proc, stuck>>

\* The keys of the live entries, in the order of the entry array.
KeySeq(reg) == [i \in 1..DictUsed(reg) |-> DictKeys(reg)[i].key]

NoIter ==
    [status |-> "none", pos |-> 1, used |-> 0, len |-> 0,
     reg |-> <<>>, out |-> <<>>]

\* Map.__iter__: iter() of the registry's dict.  The iterator notes the
\* dict's size; reg is the dict as it was at that moment.
dict_iter(reg) ==
    [status |-> "running", pos |-> 1, used |-> DictUsed(reg),
     len |-> DictUsed(reg), reg |-> reg, out |-> <<>>]

\* A next() that does not compare the sizes.
dict_iternext_unchecked(reg, it) ==
    LET live == {i \in it.pos..Len(reg) : reg[i] # DUMMY}
    IN  IF live = {}
        THEN [it EXCEPT !.status = "StopIteration"]
        ELSE LET i == CHOOSE j \in live : \A j2 \in live : j <= j2
             IN  [it EXCEPT !.out = Append(@, reg[i].key),
                            !.pos = i + 1,
                            !.len = @ - 1]

\* next() of the dict's key iterator, on the dict as it is now: it raises
\* when the size is not the noted one, else walks the entry array from its
\* position to the next live entry, and raises when it meets more live
\* entries than the dict had.
dict_iternext(reg, it) ==
    IF it.used # DictUsed(reg)
    THEN [it EXCEPT !.status = "RuntimeError"]
    ELSE LET live == {i \in it.pos..Len(reg) : reg[i] # DUMMY}
         IN  IF live = {}
             THEN [it EXCEPT !.status = "StopIteration"]
             ELSE LET i == CHOOSE j \in live : \A j2 \in live : j <= j2
                  IN  IF it.len = 0
                      THEN [it EXCEPT !.status = "RuntimeError"]
                      ELSE [it EXCEPT !.out = Append(@, reg[i].key),
                                      !.pos = i + 1,
                                      !.len = @ - 1]

\* The callers that can be running a handler.
Callers == {1, 2}

\* A caller that runs no handler.
Idle ==
    [pc |-> "idle", op |-> "none", key |-> NoKey, val |-> NoRet,
     h |-> None, g |-> None, exc |-> NoExc, err |-> NoExc, ret |-> NoRet,
     keys |-> <<>>, mixed |-> FALSE]

InitState(f, made, kept) ==
    /\ faulty = f
    /\ instance = IF made THEN map_new(NoInstances, <<>>).instance
                          ELSE NoInstances
    /\ objects = IF made THEN map_new(NoInstances, <<>>).objects ELSE <<>>
    /\ registry = <<>>
    /\ sandbox = [h \in Handles |-> "absent"]
    /\ next = 1
    /\ volume = <<>>
    /\ last = [op |-> "init", key |-> NoKey, val |-> NoRet, exc |-> NoExc,
               ret |-> NoRet, calls |-> <<>>, failed |-> {},
               old |-> None, handle |-> None]
    /\ prev = NoOp
    /\ recent = IF kept THEN NoRet ELSE NotKept
    /\ proc = [c \in Callers |-> Idle]
    /\ stuck = {}
    /\ scope = "out"
    /\ iter = NoIter

Init == InitState(TRUE, TRUE, FALSE)

\* The calls of a handler that raise, as the set of <<step, key>> that fail.
\* A handler stops at the first call that raises, except that the finally
\* block of remove and the __exit__ of the guard still run; these are the
\* sets of failures that one run of the handler can meet.
At(steps, k) == {<<s, k>> : s \in steps}

\* The failure sets of fs that the daemon of this run can produce.
Possible(fs) == IF faulty THEN fs ELSE {{}}

RemoveFailures(k) ==
    IF DictHas(registry, k)
    THEN {At({}, k), At({"rm_unpause"}, k), At({"rm_remove"}, k),
          At({"rm_unpause", "rm_remove"}, k)}
    ELSE {{}}

GetFailures(k) ==
    IF DictHas(registry, k)
    THEN {At({}, k), At({"guard_unpause"}, k), At({"guard_pause"}, k)}
    ELSE {{}}

SetFailures(k) ==
    RemoveFailures(k) \cup
    {At({}, k), At({"guard_unpause"}, k), At({"guard_pause"}, k),
     At({"run"}, k), At({"new_pause"}, k), At({"dump"}, k),
     At({"dump", "guard_pause"}, k)}

ExitFailures ==
    {fa \cup fb : fa \in RemoveFailures("a"), fb \in RemoveFailures("b")}

\* Map.__init__: a new controller, whose constructor opens the volume
\* file with mode "w"
MapInit ==
    /\ Commit([St EXCEPT !.volume = <<>>], "init", NoKey, NoRet)
    /\ instance' = map_new(instance, objects).instance
    /\ objects' = map_new(instance, objects).objects
    /\ UNCHANGED <<scope, iter>>

\* _ContainerRegistry() called on its own
NewRegistry ==
    /\ Commit(St, "new", NoKey, NoRet)
    /\ instance' = registry_new(instance, objects, "Registry").instance
    /\ objects' = registry_new(instance, objects, "Registry").objects
    /\ UNCHANGED <<scope, iter>>

\* Map.__setitem__
SetItem(k, v) ==
    /\ scope = "in"
    /\ next <= MaxSandboxes
    /\ \E fail \in Possible(SetFailures(k)) :
       \E pfx \in (IF <<"dump", k>> \in fail THEN PartialLens(v) ELSE {0}) :
       \E compact \in (IF Len(registry) > DictUsed(registry)
                       THEN BOOLEAN ELSE {FALSE}) :
          Commit(set_container_value(St, k, v, fail, pfx, compact),
                 "set", k, v)
    /\ UNCHANGED <<scope, iter, instance, objects>>

\* Map.__getitem__
GetItem(k) ==
    /\ scope = "in"
    /\ \E fail \in Possible(GetFailures(k)) :
          Commit(get_container_value(St, k, fail), "get", k, NoRet)
    /\ UNCHANGED <<scope, iter, instance, objects>>

\* Map.__delitem__
DelItem(k) ==
    /\ scope = "in"
    /\ \E fail \in Possible(RemoveFailures(k)) :
          Commit(remove_container(St, k, fail), "del", k, NoRet)
    /\ UNCHANGED <<scope, iter, instance, objects>>

\* Map.__enter__
Enter ==
    /\ scope = "out"
    /\ instance.Map # None
    /\ scope' = "in"
    /\ Commit(St, "enter", NoKey, NoRet)
    /\ UNCHANGED <<iter, instance, objects>>

\* An exit that swallows the exception of the body.
scope_exit_swallow(st, bodyExc, fail) == registry_exit(st, fail)

\* The with block is left, its body having raised or not:
\* _ContainerRegistry.__exit__ returns None, so a body exception goes on.
scope_exit(st, bodyExc, fail) ==
    LET s == registry_exit(st, fail)
    IN  IF s.exc # NoExc THEN s ELSE [s EXCEPT !.exc = bodyExc]

Exit ==
    /\ scope = "in"
    /\ scope' = "out"
    /\ \E bodyExc \in {NoExc, "BodyError"} :
       \E fail \in Possible(ExitFailures) :
          Commit(scope_exit(St, bodyExc, fail), "exit", NoKey,
                 IF bodyExc = NoExc THEN 0 ELSE 1)
    /\ UNCHANGED <<iter, instance, objects>>

\* it = iter(map_)
IterStart ==
    /\ iter' = dict_iter(registry)
    /\ UNCHANGED <<registry, sandbox, next, volume, last, prev, scope, faulty,
                 instance, objects, recent, proc, stuck>>

\* next(it)
IterNext ==
    /\ iter.status = "running"
    /\ iter' = dict_iternext(registry, iter)
    /\ UNCHANGED <<registry, sandbox, next, volume, last, prev, scope, faulty,
                 instance, objects, recent, proc, stuck>>

Next ==
    \/ MapInit
    \/ \E k \in Keys, v \in Values : SetItem(k, v)
    \/ \E k \in Keys : GetItem(k)
    \/ \E k \in Keys : DelItem(k)
    \/ Enter
    \/ Exit

Spec == Init /\ [][Next]_vars

\* The mapping written to and deleted from while it is iterated over, with
\* a daemon that fails no call: a handler that raises midway changes the
\* dict as a delete or a write does, or not at all.
InitIter == InitState(FALSE, TRUE, FALSE)

NextIter ==
    \/ Enter
    \/ \E k \in Keys, v \in Values : SetItem(k, v)
    \/ \E k \in Keys : DelItem(k)
    \/ IterStart
    \/ IterNext

SpecIter == InitIter /\ [][NextIter]_vars

\* The registry and the facade constructed in either order, by callers
\* that then use the mapping, with a daemon that fails no call.
InitNew == InitState(FALSE, FALSE, FALSE)

NextNew ==
    \/ NewRegistry
    \/ MapInit
    \/ Enter
    \/ \E k \in Keys, v \in Values : SetItem(k, v)
    \/ \E k \in Keys : GetItem(k)
    \/ \E k \in Keys : DelItem(k)

SpecNew == InitNew /\ [][NextNew]_vars

\* The writes, reads and deletes of a scope and the construction of
\* controllers, with a daemon that can fail and the writes followed.
InitVolume == InitState(TRUE, TRUE, TRUE)

NextVolume ==
    \/ MapInit
    \/ Enter
    \/ \E k \in Keys, v \in Values : SetItem(k, v)
    \/ \E k \in Keys : GetItem(k)
    \/ \E k \in Keys : DelItem(k)

SpecVolume == InitVolume /\ [][NextVolume]_vars

\* ------------------------------------------------------------ the steps
\* The handlers one step at a time: a step is one call of the daemon, one
\* access to the registry's dict, or the access to the volume file.  pc is
\* the next step of the caller;  h is the local `container` of
\* _add_container, g the container the guard is bound to, exc the exception
\* that a try or a with block has pending, keys the snapshot of __exit__;
\* mixed notes that another caller took a step since the handler began.

\* if self._registry.get(c_key): a set evicts when the key has a container
set_evicts_never(reg, k) == FALSE

set_evicts(reg, k) == registry_get(reg, k) # None

StepFrame == UNCHANGED <<last, prev, faulty, instance, objects, recent, iter>>

\* Caller c goes on as r; the handlers the other callers are in are mixed.
Others(c, r) ==
    [d \in Callers |->
        IF d = c THEN r
        ELSE IF proc[d].pc # "idle" THEN [proc[d] EXCEPT !.mixed = TRUE]
        ELSE proc[d]]

Goto(c, r) ==
    /\ proc' = Others(c, r)
    /\ scope' = scope

\* The handler of caller c ends, raising err (NoExc: it returns ret); the
\* end of __exit__ is the end of the with block.
Finish(c, err, ret) ==
    /\ proc' = Others(c, [Idle EXCEPT !.op = proc[c].op,
                                      !.key = proc[c].key,
                                      !.err = err, !.ret = ret,
                                      !.mixed = proc[c].mixed])
    /\ scope' = IF proc[c].op = "exit" THEN "out" ELSE scope

FirstStep(op) ==
    CASE op = "set" -> "set_get"
      [] op = "get" -> "block"
      [] op = "del" -> "rm_unpause"

\* Map.__setitem__, __getitem__, __delitem__ called
Begin(c, op, k, v) ==
    /\ proc[c].pc = "idle"
    /\ scope = "in"
    /\ Goto(c, [Idle EXCEPT !.pc = FirstStep(op), !.op = op, !.key = k,
                            !.val = v])
    /\ UNCHANGED <<registry, sandbox, next, volume, stuck>>
    /\ StepFrame

\* _ContainerRegistry.__exit__ called: registry_keys = list(keys())
BeginExit(c) ==
    /\ proc[c].pc = "idle"
    /\ scope = "in"
    /\ Goto(c, [Idle EXCEPT !.pc = "exit_loop", !.op = "exit",
                            !.keys = KeySeq(registry)])
    /\ UNCHANGED <<registry, sandbox, next, volume, stuck>>
    /\ StepFrame

\* for key in registry_keys: self.remove(key)
StepExitLoop(c) ==
    /\ proc[c].pc = "exit_loop"
    /\ IF proc[c].keys = <<>>
       THEN Finish(c, NoExc, NoRet)
       ELSE Goto(c, [proc[c] EXCEPT !.pc = "rm_unpause",
                                    !.key = Head(proc[c].keys),
                                    !.keys = Tail(proc[c].keys)])
    /\ UNCHANGED <<registry, sandbox, next, volume, stuck>>
    /\ StepFrame

\* _set_container_value: if self._registry.get(c_key)
StepSetGet(c) ==
    /\ proc[c].pc = "set_get"
    /\ Goto(c, [proc[c] EXCEPT !.pc = IF set_evicts(registry, proc[c].key)
                                      THEN "rm_unpause" ELSE "run"])
    /\ UNCHANGED <<registry, sandbox, next, volume, stuck>>
    /\ StepFrame

\* remove: try: self._registry[c_key].unpause()
StepRmUnpause(c) ==
    /\ proc[c].pc = "rm_unpause"
    /\ LET k == proc[c].key
       IN  IF ~DictHas(registry, k)
           THEN /\ Goto(c, [proc[c] EXCEPT !.pc = "rm_remove",
                                           !.exc = "KeyError"])
                /\ sandbox' = sandbox
           ELSE \E fail \in Possible({{}, At({"rm_unpause"}, k)}) :
                   LET s == Call(St, "rm_unpause", "unpause", k,
                                 registry_get(registry, k), fail)
                   IN  /\ Goto(c, [proc[c] EXCEPT !.pc = "rm_remove",
                                                  !.exc = s.exc])
                       /\ sandbox' = s.sandbox
    /\ UNCHANGED <<registry, next, volume, stuck>>
    /\ StepFrame

\* remove: finally: self._registry[c_key].remove(force=True)
StepRmRemove(c) ==
    /\ proc[c].pc = "rm_remove"
    /\ LET k == proc[c].key
       IN  IF ~DictHas(registry, k)
           THEN /\ Finish(c, "KeyError", NoRet)
                /\ UNCHANGED <<sandbox, stuck>>
           ELSE \E fail \in Possible({{}, At({"rm_remove"}, k)}) :
                   LET h == registry_get(registry, k)
                       s == Call(St, "rm_remove", "remove", k, h, fail)
                   IN  /\ sandbox' = s.sandbox
                       /\ IF s.exc # NoExc
                          THEN /\ Finish(c, s.exc, NoRet)
                               /\ stuck' = stuck \cup {h}
                          ELSE /\ Goto(c, [proc[c] EXCEPT !.pc = "rm_del"])
                               /\ stuck' = stuck
    /\ UNCHANGED <<registry, next, volume>>
    /\ StepFrame

\* remove: finally: del self._registry[c_key]; the exception of the try,
\* if any, goes on after it
StepRmDel(c) ==
    /\ proc[c].pc = "rm_del"
    /\ LET k == proc[c].key
       IN  IF ~DictHas(registry, k)
           THEN /\ Finish(c, "KeyError", NoRet)
                /\ registry' = registry
           ELSE /\ registry' = DictDel(registry, k)
                /\ IF proc[c].exc # NoExc
                   THEN Finish(c, proc[c].exc, NoRet)
                   ELSE IF proc[c].op = "del"
                        THEN Finish(c, NoExc, NoRet)
                        ELSE Goto(c, [proc[c] EXCEPT
                                        !.pc = IF proc[c].op = "set"
                                               THEN "run" ELSE "exit_loop"])
    /\ UNCHANGED <<sandbox, next, volume, stuck>>
    /\ StepFrame

\* _add_container: container = self.containers.run(...)
StepRun(c) ==
    /\ proc[c].pc = "run"
    /\ next <= MaxSandboxes
    /\ \E fail \in Possible({{}, At({"run"}, proc[c].key)}) :
          IF fail # {}
          THEN /\ Finish(c, "APIError", NoRet)
               /\ UNCHANGED <<sandbox, next>>
          ELSE /\ Goto(c, [proc[c] EXCEPT !.pc = "new_pause", !.h = next])
               /\ sandbox' = [sandbox EXCEPT ![next] = "running"]
               /\ next' = next + 1
    /\ UNCHANGED <<registry, volume, stuck>>
    /\ StepFrame

\* _add_container: container.pause()
StepNewPause(c) ==
    /\ proc[c].pc = "new_pause"
    /\ \E fail \in Possible({{}, At({"new_pause"}, proc[c].key)}) :
          LET s == Call(St, "new_pause", "pause", proc[c].key, proc[c].h,
                        fail)
          IN  /\ sandbox' = s.sandbox
              /\ IF s.exc # NoExc
                 THEN Finish(c, s.exc, NoRet)
                 ELSE Goto(c, [proc[c] EXCEPT !.pc = "add"])
    /\ UNCHANGED <<registry, next, volume, stuck>>
    /\ StepFrame

\* _add_container: self._registry.add(c_key, container)
StepAdd(c) ==
    /\ proc[c].pc = "add"
    /\ \E compact \in BOOLEAN :
          registry' = DictSet(registry, proc[c].key, proc[c].h, compact)
    /\ Goto(c, [proc[c] EXCEPT !.pc = "block"])
    /\ UNCHANGED <<sandbox, next, volume, stuck>>
    /\ StepFrame

\* block_container_for_ctx: container = self.get(c_key); the guard is bound
\* to the container or ContainerRegistryError is raised
StepBlock(c) ==
    /\ proc[c].pc = "block"
    /\ LET g == registry_get(registry, proc[c].key)
       IN  IF g = None
           THEN Finish(c, "ContainerRegistryError", NoRet)
           ELSE Goto(c, [proc[c] EXCEPT !.pc = "guard_unpause", !.g = g])
    /\ UNCHANGED <<registry, sandbox, next, volume, stuck>>
    /\ StepFrame

\* the __enter__ of the guard: container.unpause()
StepGuardUnpause(c) ==
    /\ proc[c].pc = "guard_unpause"
    /\ \E fail \in Possible({{}, At({"guard_unpause"}, proc[c].key)}) :
          LET s == Call(St, "guard_unpause", "unpause", proc[c].key,
                        proc[c].g, fail)
          IN  /\ sandbox' = s.sandbox
              /\ IF s.exc # NoExc
                 THEN Finish(c, s.exc, NoRet)
                 ELSE Goto(c, [proc[c] EXCEPT !.pc = "body"])
    /\ UNCHANGED <<registry, next, volume, stuck>>
    /\ StepFrame

\* the body of the with block: the volume file is written or read
StepBody(c) ==
    /\ proc[c].pc = "body"
    /\ IF proc[c].op = "set"
       THEN \E fail \in Possible({{}, At({"dump"}, proc[c].key)}),
               pfx \in PartialLens(proc[c].val) :
               LET s == WriteVolume(St, proc[c].key, proc[c].val, fail, pfx)
               IN  /\ volume' = s.volume
                   /\ Goto(c, [proc[c] EXCEPT !.pc = "guard_pause",
                                              !.exc = s.exc])
       ELSE LET s == ReadVolume(St)
            IN  /\ volume' = volume
                /\ Goto(c, [proc[c] EXCEPT !.pc = "guard_pause",
                                           !.exc = s.exc, !.ret = s.ret])
    /\ UNCHANGED <<registry, sandbox, next, stuck>>
    /\ StepFrame

\* the __exit__ of the guard: container.pause(); the exception of the body,
\* if any, goes on after it
StepGuardPause(c) ==
    /\ proc[c].pc = "guard_pause"
    /\ \E fail \in Possible({{}, At({"guard_pause"}, proc[c].key)}) :
          LET s == Call(St, "guard_pause", "pause", proc[c].key, proc[c].g,
                        fail)
          IN  /\ sandbox' = s.sandbox
              /\ IF s.exc # NoExc
                 THEN /\ Finish(c, s.exc, NoRet)
                      /\ stuck' = stuck \cup {proc[c].g}
                 ELSE /\ Finish(c, proc[c].exc, proc[c].ret)
                      /\ stuck' = stuck
    /\ UNCHANGED <<registry, next, volume>>
    /\ StepFrame

\* One caller, the handlers one step at a time, with a daemon that can fail.
InitStep == InitState(TRUE, TRUE, FALSE)

NextStep ==
    \/ Enter
    \/ \E k \in Keys, v \in Values : Begin(1, "set", k, v)
    \/ \E k \in Keys, op \in {"get", "del"} : Begin(1, op, k, NoRet)
    \/ BeginExit(1)
    \/ StepExitLoop(1)
    \/ StepSetGet(1)
    \/ StepRmUnpause(1)
    \/ StepRmRemove(1)
    \/ StepRmDel(1)
    \/ StepRun(1)
    \/ StepNewPause(1)
    \/ StepAdd(1)
    \/ StepBlock(1)
    \/ StepGuardUnpause(1)
    \/ StepBody(1)
    \/ StepGuardPause(1)

SpecStep == InitStep /\ [][NextStep]_vars

\* Two callers that set keys with no lock, their steps interleaved in any
\* way, with a daemon that fails no call on a container that exists.
InitConc == InitState(FALSE, TRUE, FALSE)

NextConc ==
    \/ Enter
    \/ \E c \in Callers, k \in Keys, v \in Values : Begin(c, "set", k, v)
    \/ \E c \in Callers : StepSetGet(c)
    \/ \E c \in Callers : StepRmUnpause(c)
    \/ \E c \in Callers : StepRmRemove(c)
    \/ \E c \in Callers : StepRmDel(c)
    \/ \E c \in Callers : StepRun(c)
    \/ \E c \in Callers : StepNewPause(c)
    \/ \E c \in Callers : StepAdd(c)
    \/ \E c \in Callers : StepBlock(c)
    \/ \E c \in Callers : StepGuardUnpause(c)
    \/ \E c \in Callers : StepBody(c)
    \/ \E c \in Callers : StepGuardPause(c)

SpecConc == InitConc /\ [][NextConc]_vars

\* ------------------------------------------------------------ properties
Returned(op) == last.op = op /\ last.exc = NoExc

\* C1 (write overwrite): a set(K, V2) that returns on a key that an earlier
\* set had registered leaves K registered under a container that is not the
\* one it was registered under before, that did not exist before the call
\* and that is paused, the old one being removed; and a get(K) that follows
\* it directly returns V2 (it returns whenever no call of the daemon fails).
C1_Fresh ==
    (Returned("set") /\ last.old # None) =>
        /\ last.handle \notin {None, last.old}
        /\ registry_get(registry, last.key) = last.handle
        /\ sandbox[last.handle] = "paused"
        /\ sandbox[last.old] = "removed"

C1_Reads ==
    (last.op = "get" /\ prev.op = "set" /\ prev.key = last.key /\ prev.over) =>
        /\ last.exc = NoExc => last.ret = prev.val
        /\ last.failed = {} => last.exc = NoExc

C1_NewContainer ==
    (last'.op = "set" /\ last'.exc = NoExc) => sandbox[last'.handle] = "absent"

C1_WriteOverwrite == [](C1_Fresh /\ C1_Reads) /\ [][C1_NewContainer]_vars

C1_Witness ==
    /\ Returned("get") /\ last.ret = 1
    /\ prev.op = "set" /\ prev.key = last.key /\ prev.over /\ prev.val = 1
    /\ last.handle = 2

\* C2 (round trip): a get(K) issued directly after a set(K, V) that returned
\* returns exactly V, and returns whenever no call of the daemon fails.
C2_RoundTrip ==
    (last.op = "get" /\ prev.op = "set" /\ prev.key = last.key) =>
        /\ last.exc = NoExc => last.ret = prev.val
        /\ last.failed = {} => (last.exc = NoExc /\ volume = Pickle_dump(prev.val))

C2_Witness ==
    /\ Returned("get") /\ last.ret = 1
    /\ prev.op = "set" /\ prev.key = last.key /\ prev.val = 1

Registered(k) == DictHas(registry, k)

PausedAt(k) == sandbox[registry_get(registry, k)] = "paused"

C3_Step ==
    (/\ last'.op \in {"set", "get"}
     /\ DictHas(registry', last'.key)
     /\ Registered(last'.key) => PausedAt(last'.key)
     /\ last'.failed \cap At({"guard_pause", "rm_remove"}, last'.key) = {})
    => sandbox'[registry_get(registry', last'.key)] = "paused"

C4_TeardownComplete == last.op = "exit" => DictUsed(registry) = 0

\* C5 (scoped lifetime): leaving the scope, the body having raised or not,
\* runs the teardown; when no call of the daemon fails in it, every
\* container that was registered is unpaused and force-removed, the registry
\* is empty, and the exception of the body, if any, is the one that leaves.
C5_Step ==
    last'.op = "exit" =>
        /\ scope = "in" /\ scope' = "out"
        /\ last'.failed = {} =>
              /\ DictUsed(registry') = 0
              /\ Len(last'.calls) = 2 * DictUsed(registry)
              /\ \A i \in 1..Len(registry) :
                    registry[i] # DUMMY =>
                        sandbox'[registry[i].handle] = "removed"
              /\ last'.exc = IF last'.val = 1 THEN "BodyError" ELSE NoExc

C5_ScopedLifetime == [][C5_Step]_vars

C5_Witness ==
    /\ last.op = "exit" /\ last.val = 1 /\ last.exc = "BodyError"
    /\ last.failed = {} /\ Len(last.calls) = 4
    /\ DictUsed(registry) = 0

\* C6 as claimed: a set(K, V) that raises, at whichever step, leaves K in
\* the registry.
C6_Original ==
    (last.op = "set" /\ last.exc # NoExc) => Registered(last.key)

\* C6 as amended: a set(K, V) that raises leaves K in the registry exactly
\* when it failed after the new sandbox was registered (at the unpause of
\* the guard, the serialization or the re-pause; K is then registered under
\* the new sandbox) or when the force-remove of the eviction failed (K keeps
\* its old sandbox); a failure of the unpause of the eviction alone, of the
\* creation or of the first pause leaves K absent.
C6_FailedSet ==
    (last.op = "set" /\ last.exc # NoExc) =>
        LET late == last.failed \cap
                      At({"guard_unpause", "dump", "guard_pause"}, last.key) # {}
            kept == <<"rm_remove", last.key>> \in last.failed
        IN  /\ Registered(last.key) <=> (late \/ kept)
            /\ late => last.handle \notin {None, last.old}
            /\ kept => last.handle = last.old

C6_Witness ==
    /\ last.op = "set" /\ last.exc # NoExc
    /\ last.failed = At({"dump"}, last.key)
    /\ Registered(last.key) /\ last.handle # last.old

\* C7 (absent-key read): get(K) on a key with no entry raises
\* ContainerRegistryError, calls no container method, creates no container
\* and leaves the registry and the volume as they were.
C7_Step ==
    (last'.op = "get" /\ ~Registered(last'.key)) =>
        /\ last'.exc = "ContainerRegistryError"
        /\ last'.calls = <<>>
        /\ UNCHANGED <<registry, sandbox, next, volume>>

C7_GetAbsent == [][C7_Step]_vars

C7_Witness ==
    /\ last.op = "get" /\ last.exc = "ContainerRegistryError"
    /\ last.old = None /\ last.calls = <<>>

\* C8 (absent-key delete): delete(K) on a key with no entry raises the error
\* that get(K) raises for an absent key, ContainerRegistryError, and calls
\* no container method.
C8_DeleteAbsent ==
    (last.op = "del" /\ last.old = None) =>
        (last.exc = "ContainerRegistryError" /\ last.calls = <<>>)

\* C9 (delete): a delete(K) that returns has force-removed the sandbox K
\* was registered under and dropped the entry; from then on K stays absent
\* until a set(K, ...), and while it is absent get(K) raises
\* ContainerRegistryError.
C9_Dropped ==
    Returned("del") =>
        /\ ~Registered(last.key)
        /\ last.old # None /\ sandbox[last.old] = "removed"

C9_ThenGet ==
    (last.op = "get" /\ prev.op = "del" /\ prev.key = last.key) =>
        last.exc = "ContainerRegistryError"

C9_Step ==
    \A k \in Keys :
        ~Registered(k) =>
            /\ DictHas(registry', k) => (last'.op = "set" /\ last'.key = k)
            /\ (last'.op = "get" /\ last'.key = k) =>
                  last'.exc = "ContainerRegistryError"

C9_Delete == [](C9_Dropped /\ C9_ThenGet) /\ [][C9_Step]_vars

C9_Witness ==
    /\ last.op = "get" /\ last.exc = "ContainerRegistryError"
    /\ prev.op = "del" /\ prev.key = last.key

IsPrefix(s, t) == Len(s) <= Len(t) /\ s = SubSeq(t, 1, Len(s))

\* C10 as claimed (iteration): an iteration yields exactly the keys that
\* were registered when it started, in insertion order, also when the
\* registry is written to or deleted from between two of its steps.
C10_Original ==
    /\ iter.status # "RuntimeError"
    /\ IsPrefix(iter.out, KeySeq(iter.reg))
    /\ iter.status = "StopIteration" => iter.out = KeySeq(iter.reg)

\* C10 as amended: an iteration is a live view of the registry, not a
\* snapshot.  A step taken while the registry is as it was when the
\* iteration started yields the next of the keys registered then, in
\* insertion order, and the iteration ends after the last of them; a step
\* taken while the number of registered keys differs from the number at the
\* start yields no key and raises RuntimeError.
InSync(it) ==
    /\ it.used = DictUsed(it.reg)
    /\ it.out = KeySeq(SubSeq(it.reg, 1, it.pos - 1))
    /\ it.len = it.used - Len(it.out)

IsNextStep ==
    /\ iter.status = "running"
    /\ iter'.status # "running" \/ Len(iter'.out) = Len(iter.out) + 1

C10_Started == (iter.status = "running" /\ iter.pos = 1) => InSync(iter)

C10_Same ==
    (IsNextStep /\ registry = iter.reg /\ InSync(iter)) =>
        /\ InSync(iter')
        /\ IF Len(iter.out) < DictUsed(iter.reg)
           THEN /\ iter'.status = "running"
                /\ iter'.out = SubSeq(KeySeq(iter.reg), 1, Len(iter.out) + 1)
           ELSE /\ iter'.status = "StopIteration"
                /\ iter'.out = KeySeq(iter.reg)

C10_Resized ==
    (IsNextStep /\ DictUsed(registry) # iter.used) =>
        (iter'.status = "RuntimeError" /\ iter'.out = iter.out)

C10_LiveView == []C10_Started /\ [][C10_Same /\ C10_Resized]_vars

C10_Witness ==
    /\ iter.status = "StopIteration" /\ registry = iter.reg
    /\ Len(iter.out) = 2 /\ iter.out = KeySeq(registry)

\* C11 (singleton): one registry object exists per process: constructing
\* the registry class or the Map facade, in any order, gives the same
\* instance every time.
C11_Singleton == Len(objects) <= 1

\* A caller is between the unpause and the pause of a guard on the
\* container that K is registered under.
InGuard(k) ==
    \E c \in Callers :
        /\ proc[c].pc \in {"body", "guard_pause"}
        /\ proc[c].key = k
        /\ proc[c].g = registry_get(registry, k)

\* A caller is in remove(K), past its unpause.
InRemove(k) ==
    \E c \in Callers :
        /\ proc[c].pc \in {"rm_remove", "rm_del"}
        /\ proc[c].key = k

C13_Entered ==
    /\ last.op \in {"set", "get"}
    /\ last.handle # None
    /\ last.op = "set" => last.handle # last.old
    /\ <<"guard_unpause", last.key>> \notin last.failed

\* What the body of the guard raised, NoExc if it returned.
C13_BodyExc ==
    IF last.op = "set"
    THEN IF <<"dump", last.key>> \in last.failed
         THEN "PicklingError" ELSE NoExc
    ELSE Pickle_load(volume).exc

\* C13 (guard exception-safety): once the guard of K is entered, its exit
\* calls pause on K's container however the body ends; when the body
\* raised, the container is paused again and the error of the body reaches
\* the caller.
C13_GuardExit ==
    C13_Entered =>
        /\ Len(last.calls) >= 2
        /\ last.calls[Len(last.calls) - 1] = <<"unpause", last.handle>>
        /\ last.calls[Len(last.calls)] = <<"pause", last.handle>>
        /\ C13_BodyExc # NoExc => last.exc # NoExc
        /\ <<"guard_pause", last.key>> \notin last.failed =>
              /\ sandbox[last.handle] = "paused"
              /\ last.exc = C13_BodyExc

C13_Witness ==
    /\ C13_Entered
    /\ C13_BodyExc # NoExc
    /\ last.exc = C13_BodyExc
    /\ sandbox[last.handle] = "paused"

\* C14 (remove's finally): when the unpause of a remove(K) of a registered
\* key raises, the container is force-removed all the same, the entry of K
\* is deleted, and the caller gets the error of the unpause.
C14_RemoveFinally ==
    /\ last.op \in {"set", "del"}
    /\ last.old # None
    /\ <<"rm_unpause", last.key>> \in last.failed
    => /\ Len(last.calls) = 2
       /\ last.calls[1] = <<"unpause", last.old>>
       /\ last.calls[2] = <<"remove", last.old>>
       /\ <<"rm_remove", last.key>> \notin last.failed =>
             /\ sandbox[last.old] = "removed"
             /\ ~DictHas(registry, last.key)
             /\ last.exc = "APIError"

C14_Witness ==
    /\ last.op = "del"
    /\ last.failed = {<<"rm_unpause", last.key>>}
    /\ sandbox[last.old] = "removed"
    /\ ~DictHas(registry, last.key)
    /\ last.exc = "APIError"

\* The containers the store has started and not force-removed.
Live == {h \in Handles : sandbox[h] \in {"running", "paused"}}

\* The containers the registry has an entry for.
RegisteredHandles == {registry_get(registry, k) : k \in Keys} \ {None}

\* C15 (cleanup under partial failure): after every operation, also one
\* that failed partway, every container the store has started and not
\* force-removed has an entry in the registry.
C15_AllRegistered == Live \subseteq RegisteredHandles

\* C16 as stated: a get that returns, returns the value of the latest set
\* (on any key) that returned normally.
C16_Original == Returned("get") => last.ret = recent

\* The last handler was a set that got to serialize its value.
C16_Dumped ==
    /\ last.op = "set"
    /\ C13_Entered
    /\ <<"dump", last.key>> \notin last.failed

C16_Holds ==
    /\ (Returned("get") /\ prev.op = "set" /\ prev.key # last.key) =>
           last.ret = prev.val
    /\ Returned("get") => volume = Pickle_dump(last.ret)
    /\ C16_Dumped => volume = Pickle_dump(last.val)

C16_Step ==
    volume' # volume =>
        \/ last'.op = "init" /\ volume' = <<>>
        \/ /\ last'.op = "set"
           /\ last'.handle \notin {None, last'.old}
           /\ <<"guard_unpause", last'.key>> \notin last'.failed
           /\ \/ volume' = Pickle_dump(last'.val)
              \/ /\ <<"dump", last'.key>> \in last'.failed
                 /\ Pickle_load(volume').exc # NoExc

\* C16 (single shared volume): the store holds one value for all keys: a
\* get(K1) right after a set(K2, V2) on another key returns V2, and a get
\* that returns, returns the value on the volume, which is the value of
\* the latest set, on any key, that serialized it, whether that set then
\* returned or raised; only such a set and the construction of a
\* controller change the volume.
C16_SharedVolume == []C16_Holds /\ [][C16_Step]_vars

C16_Witness ==
    /\ Returned("get")
    /\ prev.op = "set" /\ prev.key # last.key
    /\ last.ret = prev.val /\ last.ret = 1

\* C17 (controller construction keeps the volume): constructing a
\* controller, as constructing the Map facade again does, while the volume
\* file holds a written value leaves the contents of the file as they are.
C17_Step == last'.op = "init" => volume' = volume

C17_VolumeKept == [][C17_Step]_vars

\* The calls of the last handler on container h.
CallsOn(l, h) == {i \in 1..Len(l.calls) : l.calls[i][2] = h}

C19_Step ==
    last'.op \in {"set", "get", "del"} =>
        \A k2 \in Keys \ {last'.key} :
            /\ registry_get(registry', k2) = registry_get(registry, k2)
            /\ registry_get(registry, k2) # None =>
                  /\ sandbox'[registry_get(registry, k2)] =
                        sandbox[registry_get(registry, k2)]
                  /\ CallsOn(last', registry_get(registry, k2)) = {}

\* C19 (frame of per-key operations): a set(K, ...), get(K) or delete(K),
\* whether it returns or raises, leaves every other key as it was: the key
\* is registered under the same container if it was registered, absent if
\* it was absent, and no call is made on its container, which stays in
\* the run state it was in.
C19_Frame == [][C19_Step]_vars

C19_Witness ==
    /\ last.op = "del" /\ last.old # None
    /\ \E k2 \in Keys \ {last.key} : Registered(k2) /\ PausedAt(k2)

\* No caller is inside a handler.
AllIdle == \A c \in Callers : proc[c].pc = "idle"

\* A set whose remove met a missing entry has been mixed with the steps
\* of another caller.
C18_DoubleRemove ==
    \A c \in Callers :
        (proc[c].op = "set" /\ proc[c].err = "KeyError") => proc[c].mixed

\* An add of a set that replaces the entry of another container is the
\* add of a set that has been mixed with the steps of another caller.
C18_DoubleCreate ==
    \A c \in Callers :
        (/\ proc[c].pc = "add"
         /\ proc'[c].pc = "block"
         /\ DictHas(registry, proc[c].key)) => proc[c].mixed

\* C18 (no safety for concurrent callers): with two callers running set
\* with no lock, the set of containers is corrupted, and only by sets whose
\* steps were interleaved: the add of one caller replaces the entry the
\* other caller added, whose container stays live with no entry
\* (double-create), or the remove of one caller meets the entry the other
\* caller has removed and fails on it (double-remove).
C18_Unsafe == []C18_DoubleRemove /\ [][C18_DoubleCreate]_vars

C18_Witness ==
    /\ AllIdle
    /\ \A c \in Callers : proc[c].op = "set" /\ proc[c].key = "a"
    /\ Live \ RegisteredHandles # {}
    /\ \E c \in Callers : proc[c].mixed

\* The double-remove: a set that failed on the entry another set removed.
C18_Removed ==
    \E c \in Callers :
        proc[c].op = "set" /\ proc[c].err = "KeyError" /\ proc[c].mixed

TypeOK ==
    /\ next \in 1..(MaxSandboxes + 1)
    /\ \A i \in 1..Len(registry) :
          registry[i] = DUMMY \/ registry[i].handle \in Handles
    /\ scope \in {"in", "out"}
    /\ faulty \in BOOLEAN
    /\ recent \in Values \cup {NoRet, NotKept}
    /\ stuck \subseteq Handles
    /\ \A c \in Callers : proc[c].h \in Handles \cup {None}

====
